---- MODULE Spec2Model ----
(***************************************************************************)
(* The in-memory location service (activeLocations / policePins) and the   *)
(* route handlers that call it.                                            *)
(*                                                                         *)
(* Time is Date.now() in milliseconds.  The service functions are          *)
(* synchronous and run within one clock reading: a call reads `now` once.  *)
(* The clock never goes back.                                              *)
(* Strings are sequences of characters, so that slice() and the template   *)
(* literals are computed.  A JavaScript Map is a sequence of               *)
(* <<key, value>> entries in insertion order.                              *)
(* Coordinates are taken on a grid around (0N, 0E) whose unit is one metre *)
(* of arc (180 / (pi * 6371e3) degrees); on that grid the Haversine        *)
(* distance is the Euclidean one, exactly so along the equator and along a *)
(* meridian, which is where the grid's pairs at the 100 m boundary lie.    *)
(*                                                                         *)
(* Spec          calls of the pin registry, beside one position upsert     *)
(* SpecPositions calls of the position registry                            *)
(* SpecAction    concurrent calls of the route's action()                  *)
(* SpecLoader    the route's loader() beside calls of action()             *)
(* SpecAlias     a caller that writes into the records of a snapshot       *)
(* SpecStore     calls of both registries, beside a store that never       *)
(*               evicts                                                    *)
(* SpecClient    the Home component of one browser and the server's        *)
(*               action()                                                  *)
(***************************************************************************)
EXTENDS Integers, Sequences, FiniteSets, TLC

VARIABLES
  activeLocations,  \* Map<string, UserLocation>
  policePins,       \* Map<string, PolicePin>
  now,              \* the clock: new Date().getTime() / Date.now()
  ticks,            \* number of clock advances so far
  ret,              \* the call made by the latest step (none after a clock
                    \* advance), what it returned, (replaced) the entry
                    \* an upsert or a removal found under its key and
                    \* (evicted) how many other entries an upsert deleted
  placed,           \* history: every pin a successful addPolicePin created
  upserted,         \* history: per subject, its latest upsert not removed since
  requests,         \* the calls of the route's action(), in order of arrival
  loads,            \* the calls of the route's loader(), in order of arrival
  held,             \* the array a caller got from its latest snapshot: per
                    \* element the record as the caller sees it, its key
                    \* and (live) whether the store still holds that object
  ref,              \* a store that never evicts, called as the store is,
                    \* and what it returned to the latest call
  client            \* the Home component in one browser: its React state,
                    \* its fetcher, its timers and geolocation requests

vars ==
  <<activeLocations, policePins, now, ticks, ret, placed, upserted, requests,
    loads, held, ref, client>>

\* What a direct call of the store leaves alone
callers == <<requests, loads, held, ref, client>>

\* What a call of action() leaves alone
besideAction == <<loads, held, ref, client>>

\* What a call of loader() leaves alone
besideLoader == <<held, ref, client>>

\* What a caller of the snapshots leaves alone
besideSnapshot == <<requests, loads, ref, client>>

----------------------------------------------------------------------------
\* Program constants

STALE_THRESHOLD == 30 * 1000

POLICE_PIN_THRESHOLD == 20 * 60 * 1000

EXCLUSION_RADIUS == 100

----------------------------------------------------------------------------
\* Bounds of the model

MaxTicks == 2

MaxPlaced == 2

MaxRequests == 2

MaxSubmits == 3

----------------------------------------------------------------------------
\* Input domains

alice == <<"a", "l", "i", "c", "e">>

bob == <<"b", "o">>

UserIds == {alice, bob}

NoName == <<>>

Names == {NoName, <<"A", "l">>}

UserPrefix == <<"U", "s", "e", "r", " ">>

\* The label the client sends with a pin: userName || `User ${userId.slice(0, 4)}`
PinName(u) == IF u = alice THEN <<"A", "l">> ELSE UserPrefix \o bob

Pt(lat, lon) == [latitude |-> lat, longitude |-> lon]

Points == {Pt(0, 0), Pt(99, 0), Pt(0, 100)}

PositionPoints == {Pt(0, 0), Pt(99, 0)}

\* Clock advances: one millisecond, or a whole threshold
PinSteps == {1, POLICE_PIN_THRESHOLD}

PositionSteps == {1, STALE_THRESHOLD}

----------------------------------------------------------------------------
\* JavaScript Map, in insertion order

MapKeys(m) == {m[i][1] : i \in 1..Len(m)}

MapHas(m, k) == k \in MapKeys(m)

MapIndex(m, k) == CHOOSE i \in 1..Len(m) : m[i][1] = k

MapGet(m, k) == m[MapIndex(m, k)][2]

MapSet(m, k, v) ==
  IF MapHas(m, k) THEN [m EXCEPT ![MapIndex(m, k)] = <<k, v>>]
  ELSE Append(m, <<k, v>>)

MapDelete(m, k) == SelectSeq(m, LAMBDA e : e[1] # k)

MapValues(m) == [i \in 1..Len(m) |-> m[i][2]]

SeqToSet(s) == {s[i] : i \in 1..Len(s)}

----------------------------------------------------------------------------
\* Strings

DigitChars == <<"0", "1", "2", "3", "4", "5", "6", "7", "8", "9">>

RECURSIVE NumberToString(_)
NumberToString(n) ==
  IF n < 10 THEN <<DigitChars[n + 1]>>
  ELSE NumberToString(n \div 10) \o <<DigitChars[(n % 10) + 1]>>

Slice(s, from, to) ==
  SubSeq(s, from + 1, IF to < Len(s) THEN to ELSE Len(s))

----------------------------------------------------------------------------
\* The store

\* Eviction at age >= threshold.
cleanStaleLocationsInclusive(locs, t) ==
  SelectSeq(locs, LAMBDA e : ~(t - e[2].lastUpdated >= STALE_THRESHOLD))

cleanStaleLocations(locs, t) ==
  SelectSeq(locs, LAMBDA e : ~(t - e[2].lastUpdated > STALE_THRESHOLD))

\* Eviction at age >= threshold.
cleanStalePolicePinsInclusive(pins, t) ==
  SelectSeq(pins, LAMBDA e : ~(t - e[2].createdAt >= POLICE_PIN_THRESHOLD))

\* Eviction of the pins on the positions' threshold.
cleanStalePolicePinsOnStaleThreshold(pins, t) ==
  SelectSeq(pins, LAMBDA e : ~(t - e[2].createdAt > STALE_THRESHOLD))

cleanStalePolicePins(pins, t) ==
  SelectSeq(pins, LAMBDA e : ~(t - e[2].createdAt > POLICE_PIN_THRESHOLD))

Abs(x) == IF x < 0 THEN -x ELSE x

\* Whole metres of R * c: the largest r with r * r <= dlat^2 + dlon^2.
calculateDistance(lat1, lon1, lat2, lon2) ==
  LET dlat == lat2 - lat1
      dlon == lon2 - lon1
      a    == dlat * dlat + dlon * dlon
  IN  CHOOSE r \in 0..(Abs(dlat) + Abs(dlon)) :
        r * r <= a /\ a < (r + 1) * (r + 1)

\* name || `User ${userId.slice(0, 4)}`
displayName(userId, name) ==
  IF name # NoName THEN name ELSE UserPrefix \o Slice(userId, 0, 4)

NoError == "undefined"

TooCloseError == "Cannot place pin within 100 meters of your existing pins"

Result(ok, err) == [success |-> ok, error |-> err]

\* updateLocation merging into the stored record: the name is kept when the
\* call gives none.
updateLocationMerge(locs, userId, latitude, longitude, name, t) ==
  LET cleaned == cleanStaleLocations(locs, t)
      kept    == IF name = NoName /\ MapHas(cleaned, userId)
                 THEN MapGet(cleaned, userId).name
                 ELSE displayName(userId, name)
  IN  [activeLocations |->
         MapSet(cleaned, userId,
                [id |-> userId,
                 name |-> kept,
                 latitude |-> latitude,
                 longitude |-> longitude,
                 lastUpdated |-> t]),
       result |-> Result(TRUE, NoError)]

\* updateLocation without the eviction: only its own key is touched.
updateLocationUncleaned(locs, userId, latitude, longitude, name, t) ==
  [activeLocations |->
     MapSet(locs, userId,
            [id |-> userId,
             name |-> displayName(userId, name),
             latitude |-> latitude,
             longitude |-> longitude,
             lastUpdated |-> t]),
   result |-> Result(TRUE, NoError)]

updateLocation(locs, userId, latitude, longitude, name, t) ==
  LET cleaned == cleanStaleLocations(locs, t)
  IN  [activeLocations |->
         MapSet(cleaned, userId,
                [id |-> userId,
                 name |-> displayName(userId, name),
                 latitude |-> latitude,
                 longitude |-> longitude,
                 lastUpdated |-> t]),
       result |-> Result(TRUE, NoError)]

\* removeLocation returning what Map.delete returned.
removeLocationReportsDeleted(locs, userId) ==
  [activeLocations |-> MapDelete(locs, userId),
   result |-> Result(MapHas(locs, userId), NoError)]

removeLocation(locs, userId) ==
  [activeLocations |-> MapDelete(locs, userId),
   result |-> Result(TRUE, NoError)]

getAllLocations(locs, t) ==
  LET cleaned == cleanStaleLocations(locs, t)
  IN  [activeLocations |-> cleaned, result |-> MapValues(cleaned)]

\* getLocationCount without the eviction: the size of the map as it is.
getLocationCountUncleaned(locs, t) ==
  [activeLocations |-> locs, result |-> Len(locs)]

getLocationCount(locs, t) ==
  LET cleaned == cleanStaleLocations(locs, t)
  IN  [activeLocations |-> cleaned, result |-> Len(cleaned)]

\* The loop with an inclusive radius (distance <= 100).
hasOwnPinNearbyInclusive(pins, userId, latitude, longitude) ==
  \E i \in 1..Len(pins) :
    /\ pins[i][2].userId = userId
    /\ calculateDistance(pins[i][2].latitude, pins[i][2].longitude,
                         latitude, longitude) <= EXCLUSION_RADIUS

\* The loop with the owner compared on the pin's display label.
hasOwnPinNearbyByName(pins, userId, latitude, longitude) ==
  \E i \in 1..Len(pins) :
    /\ pins[i][2].userName = userId
    /\ calculateDistance(pins[i][2].latitude, pins[i][2].longitude,
                         latitude, longitude) < EXCLUSION_RADIUS

\* The loop of addPolicePin: does userId own a pin closer than 100 m?
hasOwnPinNearby(pins, userId, latitude, longitude) ==
  \E i \in 1..Len(pins) :
    /\ pins[i][2].userId = userId
    /\ calculateDistance(pins[i][2].latitude, pins[i][2].longitude,
                         latitude, longitude) < EXCLUSION_RADIUS

\* `${userId}-${Date.now()}`
makePinId(userId, t) == userId \o <<"-">> \o NumberToString(t)

\* addPolicePin storing the pin before the loop runs.
addPolicePinInsertFirst(pins, userId, userName, latitude, longitude, t) ==
  LET cleaned == cleanStalePolicePins(pins, t)
      pinId   == makePinId(userId, t)
      stored  == MapSet(cleaned, pinId,
                        [id |-> pinId,
                         userId |-> userId,
                         userName |-> userName,
                         latitude |-> latitude,
                         longitude |-> longitude,
                         createdAt |-> t])
  IN  IF hasOwnPinNearby(cleaned, userId, latitude, longitude)
      THEN [policePins |-> stored,
            result |-> Result(FALSE, TooCloseError),
            pinId |-> <<>>]
      ELSE [policePins |-> stored,
            result |-> Result(TRUE, NoError),
            pinId |-> pinId]

\* addPolicePin running the loop on the pins of earlier instants only: a pin
\* stored by a call of the same millisecond is not seen.
addPolicePinEarlierOnly(pins, userId, userName, latitude, longitude, t) ==
  LET cleaned == cleanStalePolicePins(pins, t)
      earlier == SelectSeq(cleaned, LAMBDA e : e[2].createdAt < t)
      pinId   == makePinId(userId, t)
  IN  IF hasOwnPinNearby(earlier, userId, latitude, longitude)
      THEN [policePins |-> cleaned,
            result |-> Result(FALSE, TooCloseError),
            pinId |-> <<>>]
      ELSE [policePins |->
              MapSet(cleaned, pinId,
                     [id |-> pinId,
                      userId |-> userId,
                      userName |-> userName,
                      latitude |-> latitude,
                      longitude |-> longitude,
                      createdAt |-> t]),
            result |-> Result(TRUE, NoError),
            pinId |-> pinId]

\* addPolicePin running the loop before cleanStalePolicePins.
addPolicePinCheckFirst(pins, userId, userName, latitude, longitude, t) ==
  LET cleaned == cleanStalePolicePins(pins, t)
      pinId   == makePinId(userId, t)
  IN  IF hasOwnPinNearby(pins, userId, latitude, longitude)
      THEN [policePins |-> cleaned,
            result |-> Result(FALSE, TooCloseError),
            pinId |-> <<>>]
      ELSE [policePins |->
              MapSet(cleaned, pinId,
                     [id |-> pinId,
                      userId |-> userId,
                      userName |-> userName,
                      latitude |-> latitude,
                      longitude |-> longitude,
                      createdAt |-> t]),
            result |-> Result(TRUE, NoError),
            pinId |-> pinId]

\* addPolicePin rejecting with a bare { success: false }.
addPolicePinBareFailure(pins, userId, userName, latitude, longitude, t) ==
  LET cleaned == cleanStalePolicePins(pins, t)
      pinId   == makePinId(userId, t)
  IN  IF hasOwnPinNearby(cleaned, userId, latitude, longitude)
      THEN [policePins |-> cleaned,
            result |-> Result(FALSE, NoError),
            pinId |-> <<>>]
      ELSE [policePins |->
              MapSet(cleaned, pinId,
                     [id |-> pinId,
                      userId |-> userId,
                      userName |-> userName,
                      latitude |-> latitude,
                      longitude |-> longitude,
                      createdAt |-> t]),
            result |-> Result(TRUE, NoError),
            pinId |-> pinId]

addPolicePin(pins, userId, userName, latitude, longitude, t) ==
  LET cleaned == cleanStalePolicePins(pins, t)
      pinId   == makePinId(userId, t)
  IN  IF hasOwnPinNearby(cleaned, userId, latitude, longitude)
      THEN [policePins |-> cleaned,
            result |-> Result(FALSE, TooCloseError),
            pinId |-> <<>>]
      ELSE [policePins |->
              MapSet(cleaned, pinId,
                     [id |-> pinId,
                      userId |-> userId,
                      userName |-> userName,
                      latitude |-> latitude,
                      longitude |-> longitude,
                      createdAt |-> t]),
            result |-> Result(TRUE, NoError),
            pinId |-> pinId]

getAllPolicePins(pins, t) ==
  LET cleaned == cleanStalePolicePins(pins, t)
  IN  [policePins |-> cleaned, result |-> MapValues(cleaned)]

----------------------------------------------------------------------------
\* Direct calls of the store, one call per step

NoRet ==
  [op |-> "none", userId |-> <<>>, name |-> <<>>,
   latitude |-> 0, longitude |-> 0,
   result |-> Result(TRUE, NoError), list |-> <<>>, count |-> 0,
   pinId |-> <<>>, replaced |-> <<>>, evicted |-> 0]

\* The reference store before any call
NoRef ==
  [locations |-> <<>>, pins |-> <<>>,
   result |-> Result(TRUE, NoError), list |-> {}, count |-> 0]

\* useFetcher() before any submission
IdleFetcher ==
  [state |-> "idle",
   data |-> <<>>,        \* fetcher.data: <<>> is undefined
   inflight |-> 0,       \* the request the fetcher waits for
   dataOf |-> "none"]    \* history: the action whose response data is

\* The Home component after its first render
Mounted ==
  [isSharing |-> FALSE,
   currentUserLocation |-> <<>>,   \* <<>> is null
   lastAction |-> "null",
   fetcher |-> IdleFetcher,
   pendingRequest |-> 0,   \* getCurrentPosition calls of requestLocation
   pendingRefresh |-> 0,   \* getCurrentPosition calls of the interval
   toast |-> "none",       \* title of the latest toast
   toastOf |-> "none"]     \* history: dataOf when that toast was raised

Init ==
  /\ activeLocations = <<>>
  /\ policePins = <<>>
  /\ now = 0
  /\ ticks = 0
  /\ ret = NoRet
  /\ placed = {}
  /\ upserted = {}
  /\ requests = <<>>
  /\ loads = <<>>
  /\ held = <<>>
  /\ ref = NoRef
  /\ client = Mounted

Tick(d) ==
  /\ ticks < MaxTicks
  /\ now' = now + d
  /\ ticks' = ticks + 1
  /\ ret' = NoRet
  /\ UNCHANGED <<activeLocations, policePins, placed, upserted, requests>>

UpdateLocation(u, p, n) ==
  \E r \in {updateLocation(activeLocations, u, p.latitude, p.longitude, n, now)} :
    /\ activeLocations' = r.activeLocations
    /\ ret' = [NoRet EXCEPT !.op = "updateLocation", !.userId = u,
                !.name = n, !.latitude = p.latitude,
                !.longitude = p.longitude, !.result = r.result,
                !.replaced = SelectSeq(activeLocations,
                                       LAMBDA e : e[1] = u),
                !.evicted = Cardinality(MapKeys(activeLocations)
                                          \ (MapKeys(r.activeLocations)
                                                \cup {u}))]
    /\ upserted' = {h \in upserted : h.id # u} \cup
                     {[id |-> u, name |-> n, latitude |-> p.latitude,
                       longitude |-> p.longitude, at |-> now]}
    /\ UNCHANGED <<policePins, now, ticks, placed>>

\* removeLocation deleting the subject's pins with its position.
RemoveLocationWithPins(u) ==
  \E r \in {removeLocation(activeLocations, u)} :
    /\ activeLocations' = r.activeLocations
    /\ policePins' = SelectSeq(policePins, LAMBDA e : e[2].userId # u)
    /\ ret' = [NoRet EXCEPT !.op = "removeLocation", !.userId = u,
                !.result = r.result,
                !.replaced = SelectSeq(activeLocations,
                                       LAMBDA e : e[1] = u)]
    /\ upserted' = {h \in upserted : h.id # u}
    /\ UNCHANGED <<now, ticks, placed>>

RemoveLocation(u) ==
  \E r \in {removeLocation(activeLocations, u)} :
    /\ activeLocations' = r.activeLocations
    /\ ret' = [NoRet EXCEPT !.op = "removeLocation", !.userId = u,
                !.result = r.result,
                !.replaced = SelectSeq(activeLocations,
                                       LAMBDA e : e[1] = u)]
    /\ upserted' = {h \in upserted : h.id # u}
    /\ UNCHANGED <<policePins, now, ticks, placed>>

GetAllLocations ==
  \E r \in {getAllLocations(activeLocations, now)} :
    /\ activeLocations' = r.activeLocations
    /\ ret' = [NoRet EXCEPT !.op = "getAllLocations", !.list = r.result]
    /\ UNCHANGED <<policePins, now, ticks, placed, upserted>>

GetLocationCount ==
  \E r \in {getLocationCount(activeLocations, now)} :
    /\ activeLocations' = r.activeLocations
    /\ ret' = [NoRet EXCEPT !.op = "getLocationCount", !.count = r.result]
    /\ UNCHANGED <<policePins, now, ticks, placed, upserted>>

AddPolicePin(u, n, p) ==
  \E r \in {addPolicePin(policePins, u, n, p.latitude, p.longitude, now)} :
    /\ r.result.success => Cardinality(placed) < MaxPlaced
    /\ policePins' = r.policePins
    /\ ret' = [NoRet EXCEPT !.op = "addPolicePin", !.userId = u,
                !.name = n, !.latitude = p.latitude,
                !.longitude = p.longitude, !.result = r.result,
                !.pinId = r.pinId]
    /\ placed' = IF r.result.success
                  THEN placed \cup {MapGet(r.policePins, r.pinId)}
                  ELSE placed
    /\ UNCHANGED <<activeLocations, now, ticks, upserted>>

GetAllPolicePins ==
  \E r \in {getAllPolicePins(policePins, now)} :
    /\ policePins' = r.policePins
    /\ ret' = [NoRet EXCEPT !.op = "getAllPolicePins", !.list = r.result]
    /\ UNCHANGED <<activeLocations, now, ticks, placed, upserted>>

\* The pin registry under every input, beside one subject's position upserts
Next ==
  \/ \E d \in PinSteps : Tick(d) /\ UNCHANGED callers
  \/ \E u \in UserIds, p \in Points :
       AddPolicePin(u, PinName(u), p) /\ UNCHANGED callers
  \/ GetAllPolicePins /\ UNCHANGED callers
  \/ UpdateLocation(bob, Pt(0, 0), NoName) /\ UNCHANGED callers

Spec == Init /\ [][Next]_vars

\* The position registry under every input
NextPositions ==
  \/ \E d \in PositionSteps : Tick(d) /\ UNCHANGED callers
  \/ \E u \in UserIds, p \in PositionPoints, n \in Names :
       UpdateLocation(u, p, n) /\ UNCHANGED callers
  \/ \E u \in UserIds : RemoveLocation(u) /\ UNCHANGED callers
  \/ GetAllLocations /\ UNCHANGED callers
  \/ GetLocationCount /\ UNCHANGED callers

SpecPositions == Init /\ [][NextPositions]_vars

----------------------------------------------------------------------------
\* The route's action(): an async function.  It runs to its first await
\* (request.formData()), resumes to its second (the import of the service)
\* and resumes once more to call the store and return; each stretch between
\* awaits runs without interruption, other calls run at the awaits.

RECURSIVE ParseDigits(_, _)
ParseDigits(s, acc) ==
  IF s = <<>> THEN acc
  ELSE LET d == CHOOSE k \in 0..9 : DigitChars[k + 1] = Head(s)
       IN  ParseDigits(Tail(s), 10 * acc + d)

\* parseFloat of a numeral the client wrote with toString()
parseFloat(s) == ParseDigits(s, 0)

Form(action, userId, p, name) ==
  [action |-> action, userId |-> userId,
   latitude |-> NumberToString(p.latitude),
   longitude |-> NumberToString(p.longitude),
   name |-> name]

Forms ==
  {Form("police", alice, p, PinName(alice)) : p \in Points}
    \cup {Form("police", bob, Pt(0, 0), PinName(bob)),
          Form("update", bob, Pt(0, 0), NoName),
          Form("remove", bob, Pt(0, 0), NoName),
          Form("refresh", bob, Pt(0, 0), NoName)}

\* A call of action() that awaits request.formData()
Arrived(form) ==
  [pc |-> "formData", form |-> form, action |-> "", userId |-> <<>>,
   response |-> Result(TRUE, NoError),
   at |-> 0, seq |-> 0, clearBefore |-> FALSE]

\* action() is called and awaits request.formData()
Receive(form) ==
  /\ Len(requests) < MaxRequests
  /\ requests' = Append(requests, Arrived(form))
  /\ UNCHANGED <<activeLocations, policePins, now, ticks, ret, placed,
                 upserted>>

\* formData() resolved: the action and userId are read, the import is awaited
FormDataResolved(i) ==
  /\ requests[i].pc = "formData"
  /\ requests' = [requests EXCEPT ![i].pc = "import",
                                  ![i].action = requests[i].form.action,
                                  ![i].userId = requests[i].form.userId]
  /\ UNCHANGED <<activeLocations, policePins, now, ticks, ret, placed,
                 upserted>>

NumberDone == Cardinality({k \in 1..Len(requests) : requests[k].pc = "done"})

\* No stored pin of userId, aged <= 20 min, lies within 100 m of the point.
ClearOfOwnPins(userId, latitude, longitude) ==
  ~\E e \in {policePins[k] : k \in 1..Len(policePins)} :
     /\ e[2].userId = userId
     /\ now - e[2].createdAt <= POLICE_PIN_THRESHOLD
     /\ (latitude - e[2].latitude) * (latitude - e[2].latitude)
          + (longitude - e[2].longitude) * (longitude - e[2].longitude)
          < EXCLUSION_RADIUS * EXCLUSION_RADIUS

\* action() with the 'remove' branch as the final else: every action that is
\* neither 'update' nor 'police' calls removeLocation.
ImportResolvedRemoveByDefault(i) ==
  LET req       == requests[i]
      latitude  == parseFloat(req.form.latitude)
      longitude == parseFloat(req.form.longitude)
      Returned(response) ==
        requests' = [requests EXCEPT
                       ![i].pc = "done",
                       ![i].response = response,
                       ![i].at = now,
                       ![i].seq = NumberDone + 1,
                       ![i].clearBefore =
                         ClearOfOwnPins(req.userId, latitude, longitude)]
  IN  /\ req.pc = "import"
      /\ IF req.action = "update"
         THEN /\ UpdateLocation(req.userId, Pt(latitude, longitude),
                                req.form.name)
              /\ Returned(ret'.result)
         ELSE IF req.action = "police"
         THEN /\ AddPolicePin(req.userId, req.form.name,
                              Pt(latitude, longitude))
              /\ Returned(ret'.result)
         ELSE /\ RemoveLocation(req.userId)
              /\ Returned(ret'.result)

\* The import resolved: the branch of the action calls the store and the
\* handler returns what the store returned.
ImportResolved(i) ==
  LET req       == requests[i]
      latitude  == parseFloat(req.form.latitude)
      longitude == parseFloat(req.form.longitude)
      Returned(response) ==
        requests' = [requests EXCEPT
                       ![i].pc = "done",
                       ![i].response = response,
                       ![i].at = now,
                       ![i].seq = NumberDone + 1,
                       ![i].clearBefore =
                         ClearOfOwnPins(req.userId, latitude, longitude)]
  IN  /\ req.pc = "import"
      /\ IF req.action = "update"
         THEN /\ UpdateLocation(req.userId, Pt(latitude, longitude),
                                req.form.name)
              /\ Returned(ret'.result)
         ELSE IF req.action = "remove"
         THEN /\ RemoveLocation(req.userId)
              /\ Returned(ret'.result)
         ELSE IF req.action = "police"
         THEN /\ AddPolicePin(req.userId, req.form.name,
                              Pt(latitude, longitude))
              /\ Returned(ret'.result)
         ELSE /\ Returned(Result(FALSE, NoError))
              /\ UNCHANGED <<activeLocations, policePins, now, ticks, ret,
                             placed, upserted>>

NextAction ==
  \/ \E d \in PinSteps : Tick(d) /\ UNCHANGED besideAction
  \/ \E form \in Forms : Receive(form) /\ UNCHANGED besideAction
  \/ \E i \in 1..Len(requests) :
       FormDataResolved(i) /\ UNCHANGED besideAction
  \/ \E i \in 1..Len(requests) :
       ImportResolved(i) /\ UNCHANGED besideAction

SpecAction == Init /\ [][NextAction]_vars

----------------------------------------------------------------------------
\* The route's loader(): an async function with one await, the import.
\* What follows the import is synchronous: getAllLocations(), then
\* getAllPolicePins(), then the return.  Each of the two calls reads the
\* clock for itself.

\* The forms of the handlers that run beside the loader
WriterForms ==
  {Form("police", alice, Pt(0, 0), PinName(alice)),
   Form("update", bob, Pt(0, 0), NoName),
   Form("remove", bob, Pt(0, 0), NoName)}

\* The loader with an await between its two reads: it never holds the
\* thread from one read to the other.
RunningWithAwait(ls) == {}

\* The loaders that hold the thread: JavaScript runs the statements between
\* two awaits to completion, so a loader that made its first read makes the
\* second one before any other handler runs.
Running(ls) == {i \in 1..Len(ls) : ls[i].pc = "pins"}

\* loader() is called and awaits the import
LoaderCalled ==
  /\ Running(loads) = {}
  /\ Len(requests) + Len(loads) < MaxRequests
  /\ loads' = Append(loads,
                     [pc |-> "import", locations |-> <<>>,
                      policePins |-> <<>>, seenLocations |-> <<>>,
                      seenPins |-> <<>>, at |-> 0])
  /\ UNCHANGED <<activeLocations, policePins, now, ticks, ret, placed,
                 upserted, requests>>

\* The import resolved: const locations = getAllLocations()
LoaderImportResolved(i) ==
  /\ Running(loads) = {}
  /\ loads[i].pc = "import"
  /\ GetAllLocations
  /\ loads' = [loads EXCEPT ![i].pc = "pins",
                            ![i].locations = ret'.list,
                            ![i].seenLocations = activeLocations',
                            ![i].seenPins = policePins]
  /\ UNCHANGED requests

\* const policePins = getAllPolicePins(); return { locations, policePins }
LoaderReadPins(i) ==
  /\ loads[i].pc = "pins"
  /\ GetAllPolicePins
  /\ loads' = [loads EXCEPT ![i].pc = "done",
                            ![i].policePins = ret'.list,
                            ![i].at = now]
  /\ UNCHANGED requests

NextLoader ==
  \/ \E d \in PinSteps : Tick(d) /\ UNCHANGED besideAction
  \/ \E form \in WriterForms :
       /\ Running(loads) = {}
       /\ Len(requests) + Len(loads) < MaxRequests
       /\ Receive(form)
       /\ UNCHANGED besideAction
  \/ \E i \in 1..Len(requests) :
       Running(loads) = {} /\ FormDataResolved(i) /\ UNCHANGED besideAction
  \/ \E i \in 1..Len(requests) :
       Running(loads) = {} /\ ImportResolved(i) /\ UNCHANGED besideAction
  \/ LoaderCalled /\ UNCHANGED besideLoader
  \/ \E i \in 1..Len(loads) :
       LoaderImportResolved(i) /\ UNCHANGED besideLoader
  \/ \E i \in 1..Len(loads) : LoaderReadPins(i) /\ UNCHANGED besideLoader

SpecLoader == Init /\ [][NextLoader]_vars

----------------------------------------------------------------------------
\* A caller of the snapshots inside the server process.  Array.from(
\* map.values()) builds a new array of the objects the map holds: the
\* elements are the stored records themselves.  The store never writes into
\* a stored object, it replaces it (Map.set) or deletes it, and a replaced or
\* deleted object stays reachable from the arrays handed out before.

NoKey == <<>>

\* The value a caller writes into a record it was handed
Scribble == 7

\* The elements of the array that are the objects of a map's values
Handed(registry, m) ==
  [k \in 1..Len(m) |->
     [registry |-> registry, key |-> m[k][1], value |-> m[k][2],
      live |-> TRUE]]

\* The held elements after a call on a registry that left it as `after` and
\* stored a new object under `key`
Detach(hs, registry, after, key) ==
  [k \in 1..Len(hs) |->
     IF hs[k].registry = registry
     THEN [hs[k] EXCEPT !.live = /\ hs[k].live
                                 /\ hs[k].key # key
                                 /\ MapHas(after, hs[k].key)]
     ELSE hs[k]]

\* const result = getAllLocations()
SnapshotLocations ==
  /\ GetAllLocations
  /\ held' = Handed("locations", activeLocations')
  /\ UNCHANGED besideSnapshot

\* const result = getAllPolicePins()
SnapshotPins ==
  /\ GetAllPolicePins
  /\ held' = Handed("pins", policePins')
  /\ UNCHANGED besideSnapshot

\* result[k].latitude = v
Mutate(k, v) ==
  /\ held[k].value.latitude # v
  /\ held' = [held EXCEPT ![k].value.latitude = v]
  /\ activeLocations' =
       IF held[k].live /\ held[k].registry = "locations"
       THEN MapSet(activeLocations, held[k].key, held'[k].value)
       ELSE activeLocations
  /\ policePins' =
       IF held[k].live /\ held[k].registry = "pins"
       THEN MapSet(policePins, held[k].key, held'[k].value)
       ELSE policePins
  /\ ret' = [NoRet EXCEPT !.op = "mutation"]
  /\ UNCHANGED <<now, ticks, placed, upserted>>
  /\ UNCHANGED besideSnapshot

NextAlias ==
  \/ \E d \in PositionSteps : Tick(d) /\ UNCHANGED callers
  \/ /\ UpdateLocation(bob, Pt(0, 0), NoName)
     /\ held' = Detach(held, "locations", activeLocations', bob)
     /\ UNCHANGED besideSnapshot
  \/ /\ RemoveLocation(bob)
     /\ held' = Detach(held, "locations", activeLocations', bob)
     /\ UNCHANGED besideSnapshot
  \/ \E p \in Points :
       /\ AddPolicePin(bob, PinName(bob), p)
       /\ held' = Detach(held, "pins", policePins', ret'.pinId)
       /\ UNCHANGED besideSnapshot
  \/ SnapshotLocations
  \/ SnapshotPins
  \/ \E k \in 1..Len(held) : Mutate(k, Scribble)

SpecAlias == Init /\ [][NextAlias]_vars

----------------------------------------------------------------------------
\* The whole store, both registries, beside a reference store that receives
\* the same calls.  The reference store never deletes an entry for its age:
\* it passes over the entries older than the threshold when it reads and
\* when it admits a pin.

StoreSteps == {1, STALE_THRESHOLD, POLICE_PIN_THRESHOLD}

StorePoints == {Pt(0, 0), Pt(0, 100)}

RefLiveLocations(r, t) ==
  SelectSeq(r.locations,
            LAMBDA e : t - e[2].lastUpdated <= STALE_THRESHOLD)

RefLivePins(r, t) ==
  SelectSeq(r.pins, LAMBDA e : t - e[2].createdAt <= POLICE_PIN_THRESHOLD)

RefReturn(r, result, list, count) ==
  [r EXCEPT !.result = result, !.list = list, !.count = count]

RefUpdateLocation(r, userId, latitude, longitude, name, t) ==
  RefReturn([r EXCEPT !.locations =
               MapSet(@, userId,
                      [id |-> userId,
                       name |-> displayName(userId, name),
                       latitude |-> latitude,
                       longitude |-> longitude,
                       lastUpdated |-> t])],
            Result(TRUE, NoError), {}, 0)

RefRemoveLocation(r, userId) ==
  RefReturn([r EXCEPT !.locations = MapDelete(@, userId)],
            Result(TRUE, NoError), {}, 0)

RefGetAllLocations(r, t) ==
  RefReturn(r, Result(TRUE, NoError),
            SeqToSet(MapValues(RefLiveLocations(r, t))), 0)

RefGetLocationCount(r, t) ==
  RefReturn(r, Result(TRUE, NoError), {}, Len(RefLiveLocations(r, t)))

RefAddPolicePin(r, userId, userName, latitude, longitude, t) ==
  LET live  == RefLivePins(r, t)
      near  == \E k \in 1..Len(live) :
                 /\ live[k][2].userId = userId
                 /\ (latitude - live[k][2].latitude)
                      * (latitude - live[k][2].latitude)
                    + (longitude - live[k][2].longitude)
                      * (longitude - live[k][2].longitude)
                    < EXCLUSION_RADIUS * EXCLUSION_RADIUS
      pinId == makePinId(userId, t)
  IN  IF near
      THEN RefReturn(r, Result(FALSE, TooCloseError), {}, 0)
      ELSE RefReturn([r EXCEPT !.pins =
                        MapSet(@, pinId,
                               [id |-> pinId,
                                userId |-> userId,
                                userName |-> userName,
                                latitude |-> latitude,
                                longitude |-> longitude,
                                createdAt |-> t])],
                     Result(TRUE, NoError), {}, 0)

RefGetAllPolicePins(r, t) ==
  RefReturn(r, Result(TRUE, NoError),
            SeqToSet(MapValues(RefLivePins(r, t))), 0)

besideStore == <<requests, loads, held, client>>

NextStore ==
  \/ \E d \in StoreSteps : Tick(d) /\ UNCHANGED callers
  \/ /\ UpdateLocation(bob, Pt(0, 0), NoName)
     /\ ref' = RefUpdateLocation(ref, bob, 0, 0, NoName, now)
     /\ UNCHANGED besideStore
  \/ /\ RemoveLocation(bob)
     /\ ref' = RefRemoveLocation(ref, bob)
     /\ UNCHANGED besideStore
  \/ /\ GetAllLocations
     /\ ref' = RefGetAllLocations(ref, now)
     /\ UNCHANGED besideStore
  \/ /\ GetLocationCount
     /\ ref' = RefGetLocationCount(ref, now)
     /\ UNCHANGED besideStore
  \/ \E p \in StorePoints :
       /\ AddPolicePin(bob, PinName(bob), p)
       /\ ref' = RefAddPolicePin(ref, bob, PinName(bob),
                                 p.latitude, p.longitude, now)
       /\ UNCHANGED besideStore
  \/ /\ GetAllPolicePins
     /\ ref' = RefGetAllPolicePins(ref, now)
     /\ UNCHANGED besideStore

SpecStore == Init /\ [][NextStore]_vars

----------------------------------------------------------------------------
\* The Home component in one browser, and the server it posts to.  One
\* fetcher carries the 'update', 'remove' and 'police' submissions: a
\* submit() while a submission is in flight replaces it, the fetcher then
\* waits for the new one, and fetcher.data is the response of the latest
\* submission that settled.  The request of a replaced submission has left
\* the browser and is handled by the server like any other.
\* A state update made by an event handler and the fetcher's change of state
\* in the same handler are taken as rendered together.
\* The 10 s interval exists while isSharing is true; a getCurrentPosition()
\* it started is not cancelled by clearInterval.  The map poll (pollFetcher)
\* only reads and is left out.

ClientPoints == {Pt(0, 0)}

\* userName || `User ${userId.slice(0, 4)}` with the userName never edited
ClientName == displayName(bob, NoName)

\* useEffect on [fetcher.data, fetcher.state, lastAction]
FetcherEffect(c) ==
  IF c.fetcher.data # <<>> /\ c.fetcher.state = "idle"
       /\ c.lastAction # "null"
  THEN IF ~c.fetcher.data[1].success /\ c.fetcher.data[1].error # NoError
       THEN [c EXCEPT !.toast = "Cannot place pin",
                      !.toastOf = c.fetcher.dataOf,
                      !.lastAction = "null"]
       ELSE IF /\ c.fetcher.data[1].success
               /\ c.fetcher.data[1].error = NoError
               /\ c.lastAction = "police"
       THEN [c EXCEPT !.toast = "Police alert placed",
                      !.toastOf = c.fetcher.dataOf,
                      !.lastAction = "null"]
       ELSE c
  ELSE c

\* fetcher.submit(formData, { method: "post" }) in the component c
Submit(c, form) ==
  /\ Len(requests) < MaxSubmits
  /\ requests' = Append(requests, Arrived(form))
  /\ client' = FetcherEffect([c EXCEPT !.fetcher.state = "submitting",
                                       !.fetcher.inflight = Len(requests) + 1])
  /\ UNCHANGED <<activeLocations, policePins, now, ticks, ret, placed,
                 upserted>>

Unsubmitted(c) ==
  /\ client' = FetcherEffect(c)
  /\ UNCHANGED <<activeLocations, policePins, now, ticks, ret, placed,
                 upserted, requests>>

\* handleToggle
HandleToggle ==
  IF client.isSharing
  THEN Submit([client EXCEPT !.isSharing = FALSE,
                             !.currentUserLocation = <<>>,
                             !.toast = "Location sharing disabled",
                             !.toastOf = "none"],
              Form("remove", bob, Pt(0, 0), NoName))
  ELSE /\ client.pendingRequest = 0
       /\ Unsubmitted([client EXCEPT !.pendingRequest = 1])

\* requestLocation: the success callback of getCurrentPosition
PositionFound(p) ==
  /\ client.pendingRequest > 0
  /\ Submit([client EXCEPT !.pendingRequest = @ - 1,
                           !.currentUserLocation = <<p>>,
                           !.isSharing = TRUE,
                           !.toast = "Location sharing enabled",
                           !.toastOf = "none"],
            Form("update", bob, p, ClientName))

\* requestLocation: the error callback of getCurrentPosition
PositionFailed ==
  /\ client.pendingRequest > 0
  /\ Unsubmitted([client EXCEPT !.pendingRequest = @ - 1,
                                !.isSharing = FALSE,
                                !.toast = "Location access denied",
                                !.toastOf = "none"])

\* The interval of the position refresh fires: getCurrentPosition is called
RefreshTimer ==
  /\ client.isSharing
  /\ client.pendingRefresh = 0
  /\ Unsubmitted([client EXCEPT !.pendingRefresh = 1])

\* The success callback of the interval's getCurrentPosition
RefreshPositionFound(p) ==
  /\ client.pendingRefresh > 0
  /\ Submit([client EXCEPT !.pendingRefresh = @ - 1,
                           !.currentUserLocation = <<p>>],
            Form("update", bob, p, ClientName))

\* sendPolicePin
SendPolicePin ==
  IF client.currentUserLocation = <<>>
  THEN /\ client.toast # "Location required"
       /\ Unsubmitted([client EXCEPT !.toast = "Location required",
                                     !.toastOf = "none"])
  ELSE Submit([client EXCEPT !.lastAction = "police"],
              Form("police", bob, client.currentUserLocation[1],
                   ClientName))

\* The submission the fetcher waits for settled: fetcher.data is the value
\* action() returned, fetcher.state is back to "idle"
FetcherSettles ==
  /\ client.fetcher.state = "submitting"
  /\ requests[client.fetcher.inflight].pc = "done"
  /\ Unsubmitted([client EXCEPT
                    !.fetcher.state = "idle",
                    !.fetcher.data =
                      <<requests[client.fetcher.inflight].response>>,
                    !.fetcher.dataOf =
                      requests[client.fetcher.inflight].action])

besideClient == <<loads, held, ref>>

NextClient ==
  \/ HandleToggle /\ UNCHANGED besideClient
  \/ \E p \in ClientPoints : PositionFound(p) /\ UNCHANGED besideClient
  \/ PositionFailed /\ UNCHANGED besideClient
  \/ RefreshTimer /\ UNCHANGED besideClient
  \/ \E p \in ClientPoints :
       RefreshPositionFound(p) /\ UNCHANGED besideClient
  \/ SendPolicePin /\ UNCHANGED besideClient
  \/ \E i \in 1..Len(requests) :
       FormDataResolved(i) /\ UNCHANGED besideAction
  \/ \E i \in 1..Len(requests) :
       ImportResolved(i) /\ UNCHANGED besideAction
  \/ FetcherSettles /\ UNCHANGED besideClient

SpecClient == Init /\ [][NextClient]_vars

----------------------------------------------------------------------------
\* Vocabulary of the properties

\* The step is a call of op (a repeated call that changes nothing stutters).
IsCall(op) == ret' # ret /\ ret'.op = op

Entries(m) == {m[i] : i \in 1..Len(m)}

PinAge(pin) == now - pin.createdAt

\* Closer than the exclusion radius, compared on the squares
Within100m(lat1, lon1, lat2, lon2) ==
  (lat2 - lat1) * (lat2 - lat1) + (lon2 - lon1) * (lon2 - lon1)
    < EXCLUSION_RADIUS * EXCLUSION_RADIUS

Exactly100m(lat1, lon1, lat2, lon2) ==
  (lat2 - lat1) * (lat2 - lat1) + (lon2 - lon1) * (lon2 - lon1)
    = EXCLUSION_RADIUS * EXCLUSION_RADIUS

\* The stored entries that are live now (age <= 20 min)
LivePins(m) == {e \in Entries(m) : PinAge(e[2]) <= POLICE_PIN_THRESHOLD}

----------------------------------------------------------------------------
\* C1: the store never holds two distinct pins of one userId that are less
\* than 100 m from each other.
C1_OwnPinsApart ==
  \A i, j \in 1..Len(policePins) :
    (i # j /\ policePins[i][2].userId = policePins[j][2].userId)
      => ~Within100m(policePins[i][2].latitude, policePins[i][2].longitude,
                     policePins[j][2].latitude, policePins[j][2].longitude)

\* Two pins of one creator are stored together.
C1_Witness ==
  \E i, j \in 1..Len(policePins) :
    i # j /\ policePins[i][2].userId = policePins[j][2].userId

\* C2: of two place-pin requests of one subject for points less than 100 m
\* apart, handled one after the other by the store with no other placement
\* of that subject between them, the later within 20 min of the earlier and
\* the earlier finding no live own pin within 100 m, the earlier returns
\* success and the later the TooClose failure, whatever the order in which
\* the requests arrived and were resumed at their awaits.
C2_OneOfTwoNearbyPlacementsWins ==
  \A i, j \in 1..Len(requests) :
    LET a == requests[i]
        b == requests[j]
    IN  (/\ a.pc = "done" /\ b.pc = "done"
         /\ a.action = "police" /\ b.action = "police"
         /\ a.userId = b.userId
         /\ a.seq < b.seq
         /\ Within100m(parseFloat(a.form.latitude),
                       parseFloat(a.form.longitude),
                       parseFloat(b.form.latitude),
                       parseFloat(b.form.longitude))
         /\ b.at - a.at <= POLICE_PIN_THRESHOLD
         /\ a.clearBefore
         /\ ~\E k \in 1..Len(requests) :
               /\ requests[k].pc = "done"
               /\ requests[k].action = "police"
               /\ requests[k].userId = a.userId
               /\ a.seq < requests[k].seq
               /\ requests[k].seq < b.seq)
        => (/\ a.response = Result(TRUE, NoError)
            /\ b.response = Result(FALSE, TooCloseError))

\* Two such requests were in flight together and the one that arrived later
\* reached the store first: it succeeded, the other was rejected.
C2_Witness ==
  /\ Len(requests) >= 2
  /\ requests[1].pc = "done" /\ requests[2].pc = "done"
  /\ requests[1].action = "police" /\ requests[2].action = "police"
  /\ requests[1].userId = requests[2].userId
  /\ requests[1].form # requests[2].form
  /\ Within100m(parseFloat(requests[1].form.latitude),
                parseFloat(requests[1].form.longitude),
                parseFloat(requests[2].form.latitude),
                parseFloat(requests[2].form.longitude))
  /\ requests[2].seq < requests[1].seq
  /\ requests[2].clearBefore
  /\ requests[2].response = Result(TRUE, NoError)
  /\ requests[1].response = Result(FALSE, TooCloseError)

\* C3: addPolicePin is rejected exactly when the store holds a pin of the
\* same userId, aged at most 20 min, less than 100 m from the requested
\* point; other subjects' pins and an own pin at exactly 100 m do not count.
C3_RejectedIffOwnLivePinNear ==
  [][IsCall("addPolicePin") =>
       ((~ret'.result.success) <=>
          \E e \in Entries(policePins) :
            /\ PinAge(e[2]) <= POLICE_PIN_THRESHOLD
            /\ e[2].userId = ret'.userId
            /\ Within100m(e[2].latitude, e[2].longitude,
                          ret'.latitude, ret'.longitude))]_vars

\* A placement is accepted beside an own pin exactly 100 m away.
C3_Witness ==
  /\ ret.op = "addPolicePin"
  /\ ret.result.success
  /\ \E e \in Entries(policePins) :
       /\ e[2].userId = ret.userId
       /\ Exactly100m(e[2].latitude, e[2].longitude,
                      ret.latitude, ret.longitude)

\* C4: a rejected addPolicePin creates nothing: the live pins, with all
\* their fields, and the position registry are the same before and after.
C4_RejectionCreatesNothing ==
  [][(IsCall("addPolicePin") /\ ~ret'.result.success) =>
       (/\ LivePins(policePins') = LivePins(policePins)
        /\ activeLocations' = activeLocations)]_vars

\* A placement was rejected while the position registry held a record.
C4_Witness ==
  /\ ret.op = "addPolicePin"
  /\ ~ret.result.success
  /\ Len(activeLocations) > 0
  /\ Len(policePins) > 0

\* C5: a pin created by a successful addPolicePin is returned, fields
\* unchanged, by every getAllPolicePins made while its age is <= 20 min.
C5_PlacedPinServedUntilExpiry ==
  ret.op = "getAllPolicePins" =>
    \A pin \in placed :
      PinAge(pin) <= POLICE_PIN_THRESHOLD => pin \in SeqToSet(ret.list)

\* C6: a successful addPolicePin uses an id no stored pin has, and so adds
\* exactly one pin to those left by its eviction pass.
C6_FreshPinId ==
  [][(IsCall("addPolicePin") /\ ret'.result.success) =>
       (/\ ret'.pinId \notin MapKeys(policePins)
        /\ Cardinality(Entries(policePins')) =
             Cardinality(LivePins(policePins)) + 1)]_vars

\* C8: getAllPolicePins returns exactly the stored pins aged <= 20 min: none
\* older, and a pin aged exactly 20 min is kept and returned.
C8_PinsServedUpToThreshold ==
  [][IsCall("getAllPolicePins") =>
       (/\ SeqToSet(ret'.list) = {e[2] : e \in LivePins(policePins)}
        /\ Entries(policePins') = LivePins(policePins))]_vars

\* A pin aged exactly 20 min is returned.
C8_Witness ==
  /\ ret.op = "getAllPolicePins"
  /\ \E pin \in SeqToSet(ret.list) : PinAge(pin) = POLICE_PIN_THRESHOLD

\* C9: when every pin of the creator within 100 m of the requested point is
\* older than 20 min, addPolicePin succeeds.
C9_ExpiredPinsDoNotExclude ==
  [][(/\ IsCall("addPolicePin")
      /\ \A e \in Entries(policePins) :
           (/\ e[2].userId = ret'.userId
            /\ Within100m(e[2].latitude, e[2].longitude,
                          ret'.latitude, ret'.longitude))
             => PinAge(e[2]) > POLICE_PIN_THRESHOLD)
       => ret'.result.success]_vars

\* A placement succeeded within 100 m of an expired pin of its creator.
C9_Witness ==
  /\ ret.op = "addPolicePin"
  /\ ret.result.success
  /\ \E pin \in placed :
       /\ pin.userId = ret.userId
       /\ PinAge(pin) > POLICE_PIN_THRESHOLD
       /\ Within100m(pin.latitude, pin.longitude, ret.latitude, ret.longitude)

\* C7: getAllLocations returns exactly one record per subject whose latest
\* upsert was not removed since and is aged <= 30 s (exactly 30 s included),
\* carrying that upsert's coordinates and time.
C7_LocationsServedUpToThreshold ==
  ret.op = "getAllLocations" =>
    LET live == {h \in upserted : now - h.at <= STALE_THRESHOLD}
    IN  /\ Len(ret.list) = Cardinality(live)
        /\ \A h \in live :
             \E x \in SeqToSet(ret.list) :
               /\ x.id = h.id
               /\ x.latitude = h.latitude
               /\ x.longitude = h.longitude
               /\ x.lastUpdated = h.at

\* A record aged exactly 30 s is returned while one aged more is not.
C7_Witness ==
  /\ ret.op = "getAllLocations"
  /\ \E x \in SeqToSet(ret.list) : now - x.lastUpdated = STALE_THRESHOLD
  /\ \E h \in upserted : now - h.at > STALE_THRESHOLD

\* The label of a record upserted without a name
ExpectedDefaultName(userId) ==
  IF userId = alice THEN <<"U", "s", "e", "r", " ", "a", "l", "i", "c">>
  ELSE <<"U", "s", "e", "r", " ", "b", "o">>

\* C10: after updateLocation the registry holds exactly one record for the
\* id: the given coordinates, lastUpdated = now, and the given name or, when
\* it is empty, 'User ' and the first 4 characters of the id; nothing of the
\* replaced record remains.
C10_UpsertReplaces ==
  ret.op = "updateLocation" =>
    /\ Cardinality({i \in 1..Len(activeLocations) :
                      activeLocations[i][1] = ret.userId}) = 1
    /\ \A e \in Entries(activeLocations) :
         e[1] = ret.userId =>
           e[2] = [id |-> ret.userId,
                   name |-> IF ret.name # <<>> THEN ret.name
                            ELSE ExpectedDefaultName(ret.userId),
                   latitude |-> ret.latitude,
                   longitude |-> ret.longitude,
                   lastUpdated |-> now]

\* An upsert without a name replaced a record that carried a given name,
\* other coordinates and an older time.
C10_Witness ==
  /\ ret.op = "updateLocation"
  /\ ret.name = NoName
  /\ Len(ret.replaced) = 1
  /\ ret.replaced[1][2].name # ExpectedDefaultName(ret.userId)
  /\ ret.replaced[1][2].latitude # ret.latitude
  /\ ret.replaced[1][2].lastUpdated < now

\* C13: removeLocation always reports success and is idempotent: after it
\* the registry holds no record of the subject, the removal of an absent
\* subject leaves the registry as it is, and removing twice gives the result
\* and the registry of removing once.
C13_RemoveIdempotent ==
  /\ ret.op = "removeLocation" =>
       /\ ret.result = Result(TRUE, NoError)
       /\ ~MapHas(activeLocations, ret.userId)
  /\ \A u \in UserIds :
       LET once  == removeLocation(activeLocations, u)
           twice == removeLocation(once.activeLocations, u)
       IN  /\ once.result = Result(TRUE, NoError)
           /\ twice = once
           /\ ~MapHas(activeLocations, u) =>
                once.activeLocations = activeLocations

\* A subject without a record was removed from a registry that holds the
\* record of another subject.
C13_Witness ==
  /\ ret.op = "removeLocation"
  /\ ret.replaced = <<>>
  /\ Len(activeLocations) > 0

\* C14: the only failure a store operation reports is the rejection of
\* addPolicePin, returned as { success: false, error: 'Cannot place pin
\* within 100 meters of your existing pins' }: updateLocation and
\* removeLocation return { success: true } whatever the state and the input,
\* and an accepted addPolicePin returns { success: true } without an error.
C14_OnlyTooCloseFails ==
  /\ ret.op \in {"updateLocation", "removeLocation"} =>
       ret.result = Result(TRUE, NoError)
  /\ ret.op = "addPolicePin" =>
       ret.result = IF ret.pinId # <<>> THEN Result(TRUE, NoError)
                    ELSE Result(FALSE, TooCloseError)
  /\ \A i \in 1..Len(requests) :
       requests[i].pc = "done" =>
         /\ requests[i].action \in {"update", "remove"} =>
              requests[i].response = Result(TRUE, NoError)
         /\ requests[i].action = "police" =>
              requests[i].response \in {Result(TRUE, NoError),
                                        Result(FALSE, TooCloseError)}

\* One handler got the rejection of addPolicePin and another one the
\* success of an accepted addPolicePin.
C14_Witness ==
  \E i, j \in 1..Len(requests) :
    /\ requests[i].pc = "done"
    /\ requests[i].action = "police"
    /\ requests[i].response = Result(FALSE, TooCloseError)
    /\ requests[j].pc = "done"
    /\ requests[j].action = "police"
    /\ requests[j].response = Result(TRUE, NoError)

\* C16: getLocationCount() is the length of what getAllLocations() returns
\* in the same state at the same clock value, and both leave the registry in
\* the same state, the one after the eviction.
C16_CountIsSnapshotLength ==
  LET count    == getLocationCount(activeLocations, now)
      snapshot == getAllLocations(activeLocations, now)
  IN  /\ count.result = Len(snapshot.result)
      /\ count.activeLocations = snapshot.activeLocations
      /\ ret.op = "getLocationCount" =>
           /\ ret.count = Len(snapshot.result)
           /\ snapshot.activeLocations = activeLocations

\* A count of one was returned after the record of another subject had
\* passed 30 s.
C16_Witness ==
  /\ ret.op = "getLocationCount"
  /\ ret.count = 1
  /\ \E h \in upserted : now - h.at > STALE_THRESHOLD

\* C17 as stated: updateLocation leaves the records of all other subjects in
\* the map, unchanged.
C17_UpsertTouchesOwnRecordOnly ==
  [][IsCall("updateLocation") =>
       \A e \in Entries(activeLocations) :
         e[1] # ret'.userId => e \in Entries(activeLocations')]_vars

\* C17: updateLocation leaves unchanged the records of the other subjects
\* that are at most 30 s old, and deletes the records of the other subjects
\* that are older: the eviction runs in updateLocation as it does in the
\* reads.
C17_UpsertKeepsLiveOthers ==
  [][IsCall("updateLocation") =>
       {e \in Entries(activeLocations') : e[1] # ret'.userId}
         = {e \in Entries(activeLocations) :
              /\ e[1] # ret'.userId
              /\ now - e[2].lastUpdated <= STALE_THRESHOLD}]_vars

\* An upsert deleted the record of another subject.
C17_Witness ==
  /\ ret.op = "updateLocation"
  /\ ret.evicted > 0

\* C11: the positions and the pins returned by one call of the loader
\* reflect one state of the store: from the read of the positions to the
\* read of the pins no updateLocation, removeLocation or addPolicePin takes
\* effect, so the pins served are the pins, aged at most 20 min at their
\* read, of the store the positions were read from.
C11_SnapshotOfOneState ==
  \A i \in 1..Len(loads) :
    /\ loads[i].pc = "pins" =>
         /\ activeLocations = loads[i].seenLocations
         /\ policePins = loads[i].seenPins
    /\ loads[i].pc = "done" =>
         /\ loads[i].locations = MapValues(loads[i].seenLocations)
         /\ loads[i].policePins =
              MapValues(SelectSeq(loads[i].seenPins,
                          LAMBDA e : loads[i].at - e[2].createdAt
                                       <= POLICE_PIN_THRESHOLD))

\* A loader returned while an action() that places a pin, not having called
\* the store yet, was waiting for its import: it could run before the
\* loader's reads or after them.
C11_Witness ==
  \E i \in 1..Len(loads) :
    /\ loads[i].pc = "done"
    /\ \E j \in 1..Len(requests) :
         requests[j].pc = "import" /\ requests[j].action = "police"

\* C12: the snapshots hand out copies: when a caller writes into a record of
\* an array it got from getAllLocations or getAllPolicePins, the store does
\* not change, and a snapshot taken at the same clock value returns what it
\* returned before the write.
C12_SnapshotsAreCopies ==
  [][IsCall("mutation") =>
       /\ getAllLocations(activeLocations', now).result
            = getAllLocations(activeLocations, now).result
       /\ getAllPolicePins(policePins', now).result
            = getAllPolicePins(policePins, now).result]_vars

\* C15: the two registries are independent: a call of updateLocation,
\* removeLocation, getAllLocations or getLocationCount, with the evictions
\* it makes, leaves every pin as it is, and a call of addPolicePin or
\* getAllPolicePins leaves the position registry as it is.
C15_RegistriesIndependent ==
  [][/\ (\/ IsCall("updateLocation") \/ IsCall("removeLocation")
         \/ IsCall("getAllLocations") \/ IsCall("getLocationCount"))
          => policePins' = policePins
     /\ (IsCall("addPolicePin") \/ IsCall("getAllPolicePins"))
          => activeLocations' = activeLocations]_vars

\* getAllPolicePins returned a pin whose creator's position record, upserted
\* when the pin was created, had expired and been deleted.
C15_Witness ==
  /\ ret.op = "getAllPolicePins"
  /\ \E k \in 1..Len(ret.list) :
       \E h \in upserted :
         /\ h.id = ret.list[k].userId
         /\ h.at = ret.list[k].createdAt
         /\ now - h.at > STALE_THRESHOLD
         /\ ~MapHas(activeLocations, h.id)

\* C18: what the store returns is what the reference store returns to the
\* same calls: the same records from getAllLocations and getAllPolicePins,
\* the same count, the same acceptance or rejection by addPolicePin.  (The
\* records are compared as sets: the order of a snapshot is not specified.)
C18_EvictionUnobservable ==
  ret.op # "none" =>
    /\ ret.result = ref.result
    /\ SeqToSet(ret.list) = ref.list
    /\ Len(ret.list) = Cardinality(ref.list)
    /\ ret.count = ref.count

\* addPolicePin accepted a point within 100 m of a pin of the caller that
\* the reference store still holds, older than 20 min.
C18_Witness ==
  /\ ret.op = "addPolicePin"
  /\ ret.result.success
  /\ \E k \in 1..Len(ref.pins) :
       /\ ref.pins[k][2].userId = ret.userId
       /\ now - ref.pins[k][2].createdAt > POLICE_PIN_THRESHOLD
       /\ Within100m(ref.pins[k][2].latitude, ref.pins[k][2].longitude,
                     ret.latitude, ret.longitude)

\* C19: while sharing is off, the client sends no 'update' and does not set
\* currentUserLocation: a step that starts and ends with isSharing false
\* leaves currentUserLocation null and submits no 'update', also when a
\* getCurrentPosition that the refresh interval started before the toggle
\* calls back after it.
C19_NoUpdateWhileSharingOff ==
  [][(~client.isSharing /\ ~client'.isSharing) =>
       /\ client'.currentUserLocation = <<>>
       /\ ~(/\ Len(requests') > Len(requests)
            /\ requests'[Len(requests')].form.action = "update")]_vars

\* C20: the latest toast is 'Police alert placed' only when the response in
\* fetcher.data came from a 'police' submission and reported success, and it
\* is 'Cannot place pin' only when that response came from a 'police'
\* submission and reported the rejection.
C20_ToastReportsPinPlacement ==
  /\ client.toast = "Police alert placed" => client.toastOf = "police"
  /\ client.toast = "Cannot place pin" => client.toastOf = "police"

\* C21: the step in which action() answers a request calls the store once,
\* by the request's action field: 'update' calls updateLocation and leaves
\* the pins alone, 'remove' calls removeLocation and leaves the pins alone,
\* 'police' calls addPolicePin and leaves the positions alone, each with the
\* request's userId and the store's return value as the answer; any other
\* action calls nothing, answers { success: false } and leaves both
\* registries as they are.
C21_ActionMapsOneToOne ==
  [][\A i \in 1..Len(requests) :
       (/\ i <= Len(requests')
        /\ requests[i].pc = "import"
        /\ requests'[i].pc = "done") =>
         IF requests[i].action = "update"
         THEN /\ ret'.op = "updateLocation"
              /\ ret'.userId = requests[i].form.userId
              /\ requests'[i].response = ret'.result
              /\ policePins' = policePins
         ELSE IF requests[i].action = "remove"
         THEN /\ ret'.op = "removeLocation"
              /\ ret'.userId = requests[i].form.userId
              /\ requests'[i].response = ret'.result
              /\ policePins' = policePins
         ELSE IF requests[i].action = "police"
         THEN /\ ret'.op = "addPolicePin"
              /\ ret'.userId = requests[i].form.userId
              /\ requests'[i].response = ret'.result
              /\ activeLocations' = activeLocations
         ELSE /\ requests'[i].response = Result(FALSE, NoError)
              /\ ret' = ret
              /\ activeLocations' = activeLocations
              /\ policePins' = policePins]_vars

\* A request with an action that is none of the three was answered
\* { success: false } while the store held the position of its userId.
C21_Witness ==
  \E i \in 1..Len(requests) :
    /\ requests[i].pc = "done"
    /\ ~(requests[i].action \in {"update", "remove", "police"})
    /\ requests[i].response = Result(FALSE, NoError)
    /\ MapHas(activeLocations, requests[i].userId)

====
